---- MODULE Spec2Model ----
(***************************************************************************)
(* Procedural locomotion demo: the keyboard-driven InteractiveCharacter   *)
(* (interactive_animation_demo.py) and the figure-8 ProceduralCharacter   *)
(* (standalone_animation_demo.py), with the renderer handlers that drive  *)
(* them.                                                                   *)
(*                                                                         *)
(* Numbers.  The program computes in IEEE doubles.  Here every float is a  *)
(* fixed-point integer counting 1/Scale units (Scale = 3000, so that the   *)
(* frame step 1/30 s is exactly 100 units).  Products and quotients round  *)
(* to the nearest unit, ties away from zero, so that x |-> -x commutes     *)
(* with every operation as it does for doubles.  sin, cos, atan2 and sqrt  *)
(* are computed (range reduction + polynomial, integer square root), never *)
(* taken as the identity.  Lengths are in units, angles in radians (or     *)
(* degrees for lean_angle), all times Scale.                               *)
(***************************************************************************)
EXTENDS Integers, Sequences, FiniteSets, TLC

VARIABLES
    variant,        \* which program runs: "interactive" or "standalone"
    dt,             \* the step the driver passes to update()
    position,       \* <<x, y>>
    velocity,       \* <<vx, vy>>
    rotation,       \* radians
    lean_angle,     \* degrees
    ground_speed,
    time,
    last_rotation,  \* interactive only
    input_forward,  \* interactive only
    input_turn,     \* interactive only
    frame_count,    \* the renderer's frame counter
    fig_open,       \* the figure is open (ESC closes it)
    angle_diff,     \* update()'s local angle_diff (standalone)
    yaw_rate,       \* update()'s local yaw_rate
    target_lean,    \* update()'s local target_lean, after the clip
    skeleton,       \* {} or {the dict get_skeleton_points() returned last}
    last_call       \* the operation that ran last

vars == <<variant, dt, position, velocity, rotation, lean_angle, ground_speed,
          time, last_rotation, input_forward, input_turn, frame_count,
          fig_open, angle_diff, yaw_rate, target_lean, skeleton, last_call>>

\* The fields of the character object (CharacterState and the input state).
charstate == <<position, velocity, rotation, lean_angle, ground_speed, time,
               last_rotation, input_forward, input_turn>>

-----------------------------------------------------------------------------
(* Fixed-point arithmetic *)

\* update_frame: dt = 1.0 / 30.0
FPS == 30

Scale == FPS * 100

One == Scale

Abs(a) == IF a < 0 THEN -a ELSE a

Min(a, b) == IF a <= b THEN a ELSE b

Max(a, b) == IF a >= b THEN a ELSE b

Sign(a) == IF a < 0 THEN -1 ELSE IF a > 0 THEN 1 ELSE 0

\* a / b for integers, b > 0, rounded to the nearest, ties away from zero.
RDiv(a, b) == Sign(a) * ((Abs(a) + (b \div 2)) \div b)

\* |a| * |b| / c without leaving 32 bits: c * |b| and (|a| / c) * |b| must fit.
MulDivAbs(a, b, c) == (a \div c) * b + RDiv((a % c) * b, c)

\* a * b / c rounded, c > 0; the larger factor is the one split.
MulDiv(a, b, c) ==
    Sign(a) * Sign(b) *
        MulDivAbs(Max(Abs(a), Abs(b)), Min(Abs(a), Abs(b)), c)

\* The float product a * b (the factors are split only when a * b leaves 32 bits).
Mul(a, b) ==
    IF Abs(a) <= 46340 /\ Abs(b) <= 46340
    THEN RDiv(a * b, Scale)
    ELSE MulDiv(a, b, Scale)

\* The float quotient a / b, b # 0.
Div(a, b) == Sign(b) * MulDiv(a, Scale, Abs(b))

\* The decimal literal n/d of the source.
Lit(n, d) == RDiv(n * Scale, d)

RECURSIVE ISqrtIter(_, _, _)
ISqrtIter(m, lo, hi) ==
    IF lo >= hi THEN lo
    ELSE LET mid == (lo + hi + 1) \div 2
         IN IF mid * mid <= m THEN ISqrtIter(m, mid, hi)
                              ELSE ISqrtIter(m, lo, mid - 1)

\* The integer square root, rounded to the nearest.
ISqrt(m) ==
    LET Nearest(r) == IF m - r * r > r THEN r + 1 ELSE r
    IN Nearest(ISqrtIter(m, 0, 46340))

\* np.linalg.norm of a 2-vector.
Norm(v) == ISqrt(v[1] * v[1] + v[2] * v[2])

\* math.pi
PI == RDiv(355 * Scale, 113)

TWO_PI == 2 * PI

HALF_PI == PI \div 2

\* sin on [0, pi/2]: the Taylor polynomial to x^9, in Horner form.
SinPoly(x) ==
    LET Horner(x2) ==
            LET t4 == One - RDiv(x2, 72)
                t3 == One - Mul(RDiv(x2, 42), t4)
                t2 == One - Mul(RDiv(x2, 20), t3)
                t1 == One - Mul(RDiv(x2, 6), t2)
            IN Max(0, Min(One, Mul(x, t1)))
    IN Horner(Mul(x, x))

\* cos on [0, pi/2]: the Taylor polynomial to x^8, in Horner form.
CosPoly(x) ==
    LET Horner(x2) ==
            LET t4 == One - RDiv(x2, 56)
                t3 == One - Mul(RDiv(x2, 30), t4)
                t2 == One - Mul(RDiv(x2, 12), t3)
                t1 == One - Mul(RDiv(x2, 2), t2)
            IN Max(0, Min(One, t1))
    IN Horner(Mul(x, x))

\* math.sin: odd, reduced to [0, pi/2].
Sin(x) ==
    LET Half(b) == SinPoly(IF b > HALF_PI THEN PI - b ELSE b)
        Turn(a) == IF a > PI THEN -Half(a - PI) ELSE Half(a)
    IN Sign(x) * Turn(Abs(x) % TWO_PI)

\* math.cos: even, reduced to [0, pi/2].
Cos(x) ==
    LET Half(b) == IF b > HALF_PI THEN -CosPoly(PI - b) ELSE CosPoly(b)
        Turn(a) == Half(IF a > PI THEN TWO_PI - a ELSE a)
    IN Turn(Abs(x) % TWO_PI)

\* atan on [0, 1]: Abramowitz-Stegun 4.4.47, a polynomial in z^2.
AtanPoly(z) ==
    LET Horner(z2) ==
            LET t4 == Lit(-8513, 100000) + Mul(z2, Lit(2084, 100000))
                t3 == Lit(18014, 100000) + Mul(z2, t4)
                t2 == Lit(-33030, 100000) + Mul(z2, t3)
                t1 == Lit(99987, 100000) + Mul(z2, t2)
            IN Mul(z, t1)
    IN Horner(Mul(z, z))

\* math.atan2(y, x), in (-pi, pi].
Atan2(y, x) ==
    IF x = 0 /\ y = 0 THEN 0
    ELSE LET Quadrant(r0) ==
                 LET r1 == IF Abs(y) > Abs(x) THEN HALF_PI - r0 ELSE r0
                 IN IF x < 0 THEN PI - r1 ELSE r1
             Signed(r2) == IF y < 0 THEN -r2 ELSE r2
         IN Signed(Quadrant(AtanPoly(
                Div(Min(Abs(x), Abs(y)), Max(Abs(x), Abs(y))))))

\* math.degrees
Degrees(x) == MulDiv(180 * x, Scale, PI)

\* math.radians
Radians(x) == RDiv(MulDiv(x, PI, Scale), 180)

\* np.clip
Clip(x, lo, hi) == Max(lo, Min(hi, x))

-----------------------------------------------------------------------------
(* Parameters set by the constructors *)

\* update_frame: dt = 1.0 / 30.0
DT == Scale \div FPS

max_speed == 3 * One

acceleration == 8 * One

turn_speed == Lit(25, 10)

friction == Lit(85, 100)

max_lean_angle == 20 * One

lean_interp_speed == 6 * One

head_pitch_amplitude == 10 * One

head_yaw_amplitude == 10 * One

head_oscillation_speed == Lit(15, 10)

body_height == Lit(18, 10)

head_size == Lit(2, 10)

leg_length == Lit(9, 10)

walk_speed == 2 * One

\* The factor between the yaw rate and the target lean.
LeanGainInteractive == Lit(5, 10)

LeanGainStandalone == Lit(3, 10)

\* max(dt, 0.001)
DtFloor == Lit(1, 1000)

\* if np.linalg.norm(velocity_diff) > 0.001
DiffThreshold == Lit(1, 1000)

\* if distance > 0.1, if ground_speed > 0.1
DistanceThreshold == Lit(1, 10)

SpeedThreshold == Lit(1, 10)

\* max(self.ground_speed, 0.5)
StrideFloor == Lit(5, 10)

VAdd(u, v) == <<u[1] + v[1], u[2] + v[2]>>

VSub(u, v) == <<u[1] - v[1], u[2] - v[2]>>

VScale(u, k) == <<Mul(u[1], k), Mul(u[2], k)>>

VDiv(u, k) == <<Div(u[1], k), Div(u[2], k)>>

-----------------------------------------------------------------------------
(* The lean derivation *)

\* interactive: target_lean = clip(math.degrees(yaw_rate) * 0.5, -max, max)
TargetLeanInteractive(yaw, gain) ==
    Clip(Mul(Degrees(yaw), gain), -max_lean_angle, max_lean_angle)

\* standalone: target_lean = clip(yaw_rate * 0.3, -max, max)
TargetLeanStandalone(yaw, gain) ==
    Clip(Mul(yaw, gain), -max_lean_angle, max_lean_angle)

\* Fault: the lean step without the factor dt.
LeanStep_NoDt(lean, target, d) ==
    lean + Mul(target - lean, lean_interp_speed)

\* Fault: the yaw rate is divided by dt itself.
YawDivisor_NoFloor(d) == d

\* max(dt, 0.001), the divisor of the yaw rate in both variants.
YawDivisor(d) == Max(d, DtFloor)

\* lean_angle += (target_lean - lean_angle) * lean_interp_speed * dt
LeanStep(lean, target, d) ==
    lean + Mul(Mul(target - lean, lean_interp_speed), d)

-----------------------------------------------------------------------------
(* InteractiveCharacter.update *)

\* if self.input_turn != 0: ... self.rotation += rotation_change
IRotation(d) ==
    IF input_turn # 0
    THEN rotation + Mul(Mul(input_turn, turn_speed), d)
    ELSE rotation

\* ... self.last_rotation = self.rotation (inside the same if)
ILastRotation ==
    IF input_turn # 0 THEN rotation ELSE last_rotation

\* target_velocity of the input along the facing direction rot.
ITargetVelocity(rot) ==
    <<Mul(Mul(input_forward, Cos(rot)), max_speed),
      Mul(Mul(input_forward, Sin(rot)), max_speed)>>

\* Fault: the velocity jumps to the target instead of stepping toward it.
IAccelerate_Snap(vel, target, d) == target

\* if np.linalg.norm(velocity_diff) > 0.001: the branch that divides by it.
IDivides(n) == n > DiffThreshold

\* The velocity after the acceleration step toward target, before friction.
IAccelerate(vel, target, d) ==
    LET Step(velocity_diff, n) ==
            IF IDivides(n)
            THEN VAdd(vel, VScale(VDiv(velocity_diff, n),
                                  Min(Mul(acceleration, d), n)))
            ELSE vel
        Toward(velocity_diff) == Step(velocity_diff, Norm(velocity_diff))
    IN Toward(VSub(target, vel))

\* Fault: no friction.
IFriction_None(vel) == vel

\* Fault: the friction factor is applied twice in a tick.
IFriction_Twice(vel) == VScale(VScale(vel, friction), friction)

\* self.velocity *= self.friction
IFriction(vel) == VScale(vel, friction)

\* Fault: the yaw rate taken from the rotation at construction instead of
\* the rotation before this tick.
IYawRate_FromStart(rot, last, d) == Div(rot, YawDivisor(d))

\* yaw_rate = (self.rotation - self.last_rotation) / max(dt, 0.001)
IYawRate(rot, last, d) == Div(rot - last, YawDivisor(d))

\* The fields and locals update(d) leaves behind, as a record.
IUpdate(d) ==
    LET Store(rot1, vel1, yaw, tl) ==
            [time |-> time + d,
             rotation |-> rot1,
             last_rotation |-> rot1,
             velocity |-> vel1,
             position |-> VAdd(position, VScale(vel1, d)),
             ground_speed |-> Norm(vel1),
             lean_angle |-> LeanStep(lean_angle, tl, d),
             angle_diff |-> angle_diff,
             yaw_rate |-> yaw,
             target_lean |-> tl]
        Lean(rot1, vel1, yaw) ==
            Store(rot1, vel1, yaw,
                  TargetLeanInteractive(yaw, LeanGainInteractive))
        Move(rot1, last1) ==
            Lean(rot1,
                 IFriction(IAccelerate(velocity, ITargetVelocity(rot1), d)),
                 IYawRate(rot1, last1, d))
    IN Move(IRotation(d), ILastRotation)

-----------------------------------------------------------------------------
(* ProceduralCharacter.update *)

\* The figure-8 target at time t.
PTarget(t) ==
    LET At(u) == <<Mul(3 * One, Sin(u)), Mul(Lit(15, 10), Sin(2 * u))>>
    IN At(Mul(t, Lit(3, 10)))

\* if distance > 0.1: the branch that divides by it.
PDivides(distance) == distance > DistanceThreshold

\* velocity toward the target, or damped when the target is close.
PVelocity(vel, pos, t) ==
    LET Step(direction_to_target, distance) ==
            IF PDivides(distance)
            THEN VScale(VDiv(direction_to_target, distance), walk_speed)
            ELSE VScale(vel, Lit(9, 10))
        Toward(direction_to_target) ==
            Step(direction_to_target, Norm(direction_to_target))
    IN Toward(VSub(PTarget(t), pos))

RECURSIVE WhileAbove(_)
\* while angle_diff > math.pi: angle_diff -= 2 * math.pi
WhileAbove(a) == IF a > PI THEN WhileAbove(a - TWO_PI) ELSE a

RECURSIVE WhileBelow(_)
\* while angle_diff < -math.pi: angle_diff += 2 * math.pi
WhileBelow(a) == IF a < -PI THEN WhileBelow(a + TWO_PI) ELSE a

\* Fault: the second loop is missing.
NormalizeAngle_OneLoop(a) == WhileAbove(a)

\* The two normalization loops, in the order of the source.
NormalizeAngle(a) == WhileBelow(WhileAbove(a))

\* angle_diff: 0.0, or the normalized difference to the heading of vel.
PAngleDiff(vel, gs, rot) ==
    IF gs > SpeedThreshold
    THEN NormalizeAngle(Atan2(vel[2], vel[1]) - rot)
    ELSE 0

\* self.state.rotation += angle_diff * 5.0 * dt, when the character moves.
PRotation(rot, gs, ad, d) ==
    IF gs > SpeedThreshold THEN rot + Mul(Mul(ad, 5 * One), d) ELSE rot

\* yaw_rate = angle_diff / max(dt, 0.001)
PYawRate(ad, d) == Div(ad, YawDivisor(d))

\* The fields and locals update(d) leaves behind, as a record.
PUpdate(d) ==
    LET Store(vel1, gs, ad, yaw, tl) ==
            [time |-> time + d,
             rotation |-> PRotation(rotation, gs, ad, d),
             last_rotation |-> last_rotation,
             velocity |-> vel1,
             position |-> VAdd(position, VScale(vel1, d)),
             ground_speed |-> gs,
             lean_angle |-> LeanStep(lean_angle, tl, d),
             angle_diff |-> ad,
             yaw_rate |-> yaw,
             target_lean |-> tl]
        Lean(vel1, gs, ad, yaw) ==
            Store(vel1, gs, ad, yaw,
                  TargetLeanStandalone(yaw, LeanGainStandalone))
        Turn(vel1, gs, ad) == Lean(vel1, gs, ad, PYawRate(ad, d))
        Face(vel1, gs) == Turn(vel1, gs, PAngleDiff(vel1, gs, rotation))
        Move(vel1) == Face(vel1, Norm(vel1))
    IN Move(PVelocity(velocity, position, time + d))

-----------------------------------------------------------------------------
(* get_skeleton_points *)

\* Fault: the lean tilts the point (a rotation by lean_rad) instead of
\* only narrowing its x coordinate.
RotatePoint_Tilt(px, py, pos, cos_r, sin_r, lean_rad) ==
    LET Place(px_lean) ==
            <<pos[1] + Mul(px_lean, cos_r) - Mul(py, sin_r),
              pos[2] + Mul(px_lean, sin_r) + Mul(py, cos_r)>>
    IN Place(Mul(px, Cos(lean_rad)) - Mul(py, Sin(lean_rad)))

\* rotate_point(px, py): cos_r and sin_r are the locals computed once per
\* call of get_skeleton_points, math.cos(lean_rad) is taken in every call.
RotatePoint(px, py, pos, cos_r, sin_r, lean_rad) ==
    LET Place(px_lean) ==
            <<pos[1] + Mul(px_lean, cos_r) - Mul(py, sin_r),
              pos[2] + Mul(px_lean, sin_r) + Mul(py, cos_r)>>
    IN Place(Mul(px, Cos(lean_rad)))

\* Fault: the foot height follows the phase with its sign.
FootY_Signed(phase) == -leg_length + Mul(phase, Lit(2, 10))

\* The body-local vertical offset of a foot whose leg has the given phase.
FootY(phase) == -leg_length + Mul(Abs(phase), Lit(2, 10))

\* The body-local vertical offset of a hand.
HandY(phase) == Mul(body_height, Lit(3, 10)) - Mul(Abs(phase), Lit(1, 10))

\* The head: spine_top plus the oscillating offset.
HeadPoint(spine_top, cos_r, t) ==
    LET Offset(head_pitch, head_yaw) ==
            <<spine_top[1] + Mul(Mul(head_size, Sin(head_yaw)), cos_r),
              spine_top[2] + Mul(head_size, Cos(head_pitch)) + Lit(3, 10)>>
        At(head_time) ==
            Offset(Mul(Sin(head_time), Radians(head_pitch_amplitude)),
                   Mul(Cos(head_time), Radians(head_yaw_amplitude)))
    IN At(Mul(t, head_oscillation_speed))

\* Fault: the walk cycle starts a quarter period late.
StrideTime_Late(t, stride_speed) ==
    Mul(Mul(t, stride_speed), 2 * One) + HALF_PI

\* stride_time = time * speed * 2.0
StrideTime(t, stride_speed) == Mul(Mul(t, stride_speed), 2 * One)

\* The dict of the seven joints; stride_speed is the speed the walk cycle runs at.
SkeletonPoints(pos, rot, lean, t, stride_speed) ==
    LET Joints(lean_rad, cos_r, sin_r, spine_top, left_phase, right_phase) ==
            [hip |-> pos,
             spine_top |-> spine_top,
             head |-> HeadPoint(spine_top, cos_r, t),
             left_foot |->
                 RotatePoint(-Lit(2, 10) + Mul(left_phase, Lit(3, 10)),
                             FootY(left_phase), pos, cos_r, sin_r, lean_rad),
             right_foot |->
                 RotatePoint(Lit(2, 10) + Mul(right_phase, Lit(3, 10)),
                             FootY(right_phase), pos, cos_r, sin_r, lean_rad),
             left_hand |->
                 RotatePoint(-Lit(4, 10) - Mul(right_phase, Lit(2, 10)),
                             HandY(right_phase), pos, cos_r, sin_r, lean_rad),
             right_hand |->
                 RotatePoint(Lit(4, 10) - Mul(left_phase, Lit(2, 10)),
                             HandY(left_phase), pos, cos_r, sin_r, lean_rad)]
        Legs(lean_rad, cos_r, sin_r, stride_time) ==
            Joints(lean_rad, cos_r, sin_r,
                   RotatePoint(0, Mul(body_height, Lit(6, 10)), pos,
                               cos_r, sin_r, lean_rad),
                   Sin(stride_time), Sin(stride_time + PI))
    IN Legs(Radians(lean), Cos(rot), Sin(rot), StrideTime(t, stride_speed))

\* The speed of the walk cycle: interactive floors it at 0.5, standalone does not.
StrideSpeed(v, gs) == IF v = "interactive" THEN Max(gs, StrideFloor) ELSE gs

\* What get_skeleton_points() returns for the character fields in record c.
PoseOf(c) ==
    SkeletonPoints(c.position, c.rotation, c.lean_angle, c.time,
                   StrideSpeed(variant, c.ground_speed))

\* The fields get_skeleton_points() reads, as they are now.
Self ==
    [position |-> position, rotation |-> rotation, lean_angle |-> lean_angle,
     time |-> time, ground_speed |-> ground_speed]

\* Fault: get_skeleton_points() advances the clock.
GetSkeletonPoints_Ticks ==
    /\ fig_open
    /\ skeleton' = {PoseOf(Self)}
    /\ last_call' = "get_skeleton_points"
    /\ time' = time + dt
    /\ UNCHANGED <<variant, dt, position, velocity, rotation, lean_angle,
                   ground_speed, last_rotation, input_forward, input_turn,
                   frame_count, fig_open, angle_diff, yaw_rate, target_lean>>

\* A direct call of get_skeleton_points().
GetSkeletonPoints ==
    /\ fig_open
    /\ skeleton' = {PoseOf(Self)}
    /\ last_call' = "get_skeleton_points"
    /\ UNCHANGED <<variant, dt, charstate, frame_count, fig_open,
                   angle_diff, yaw_rate, target_lean>>

-----------------------------------------------------------------------------
(* The renderers' handlers *)

MoveKeys == {"w", "up", "s", "down", "a", "left", "d", "right"}

Keys == MoveKeys \cup {" ", "escape", "x"}

\* Fault: SPACE leaves the velocity as it is.
StopVelocity_Keep(vel) == vel

\* self.character.velocity *= 0.0
StopVelocity(vel) == VScale(vel, 0)

\* InteractiveRenderer.on_key_press
OnKeyPress(key) ==
    /\ variant = "interactive"
    /\ fig_open
    /\ \/ /\ key \in {"w", "up"}
          /\ input_forward' = One
          /\ UNCHANGED <<input_turn, velocity, fig_open>>
       \/ /\ key \in {"s", "down"}
          /\ input_forward' = -One
          /\ UNCHANGED <<input_turn, velocity, fig_open>>
       \/ /\ key \in {"a", "left"}
          /\ input_turn' = One
          /\ UNCHANGED <<input_forward, velocity, fig_open>>
       \/ /\ key \in {"d", "right"}
          /\ input_turn' = -One
          /\ UNCHANGED <<input_forward, velocity, fig_open>>
       \/ /\ key = " "
          /\ input_forward' = 0
          /\ input_turn' = 0
          /\ velocity' = StopVelocity(velocity)
          /\ UNCHANGED fig_open
       \/ /\ key = "escape"
          /\ fig_open' = FALSE
          /\ UNCHANGED <<input_forward, input_turn, velocity>>
       \/ /\ key \notin MoveKeys \cup {" ", "escape"}
          /\ UNCHANGED <<input_forward, input_turn, velocity, fig_open>>
    /\ last_call' = "on_key_press"
    /\ UNCHANGED <<variant, dt, position, rotation, lean_angle, ground_speed,
                   time, last_rotation, frame_count, angle_diff, yaw_rate,
                   target_lean, skeleton>>

\* Fault: a release takes the key's contribution off the input instead of
\* setting the input to 0.
OnKeyRelease_Subtracts(key) ==
    /\ variant = "interactive"
    /\ fig_open
    /\ \/ /\ key \in {"w", "up"}
          /\ input_forward' = input_forward - One
          /\ UNCHANGED input_turn
       \/ /\ key \in {"s", "down"}
          /\ input_forward' = input_forward + One
          /\ UNCHANGED input_turn
       \/ /\ key \in {"a", "left"}
          /\ input_turn' = input_turn - One
          /\ UNCHANGED input_forward
       \/ /\ key \in {"d", "right"}
          /\ input_turn' = input_turn + One
          /\ UNCHANGED input_forward
       \/ /\ key \notin MoveKeys
          /\ UNCHANGED <<input_forward, input_turn>>
    /\ last_call' = "on_key_release"
    /\ UNCHANGED <<variant, dt, position, velocity, rotation, lean_angle,
                   ground_speed, time, last_rotation, frame_count, fig_open,
                   angle_diff, yaw_rate, target_lean, skeleton>>

\* InteractiveRenderer.on_key_release
OnKeyRelease(key) ==
    /\ variant = "interactive"
    /\ fig_open
    /\ \/ /\ key \in {"w", "up", "s", "down"}
          /\ input_forward' = 0
          /\ UNCHANGED input_turn
       \/ /\ key \in {"a", "left", "d", "right"}
          /\ input_turn' = 0
          /\ UNCHANGED input_forward
       \/ /\ key \notin MoveKeys
          /\ UNCHANGED <<input_forward, input_turn>>
    /\ last_call' = "on_key_release"
    /\ UNCHANGED <<variant, dt, position, velocity, rotation, lean_angle,
                   ground_speed, time, last_rotation, frame_count, fig_open,
                   angle_diff, yaw_rate, target_lean, skeleton>>

\* The divisors InteractiveCharacter.update(d) divides by, from this state.
IDivisors(d) ==
    LET Used(n) == {YawDivisor(d)} \cup (IF IDivides(n) THEN {n} ELSE {})
    IN Used(Norm(VSub(ITargetVelocity(IRotation(d)), velocity)))

\* The divisors ProceduralCharacter.update(d) divides by, from this state.
PDivisors(d) ==
    LET Used(n) == {YawDivisor(d)} \cup (IF PDivides(n) THEN {n} ELSE {})
    IN Used(Norm(VSub(PTarget(time + d), position)))

\* The divisors update(d) of the running variant divides by.
Divisors(d) == IF variant = "interactive" THEN IDivisors(d) ELSE PDivisors(d)

\* update(d) of the running variant.
Update(d) == IF variant = "interactive" THEN IUpdate(d) ELSE PUpdate(d)

\* update_frame of either renderer: update(dt), then get_skeleton_points().
UpdateFrame ==
    LET Frame(c) ==
            /\ time' = c.time
            /\ rotation' = c.rotation
            /\ last_rotation' = c.last_rotation
            /\ velocity' = c.velocity
            /\ position' = c.position
            /\ ground_speed' = c.ground_speed
            /\ lean_angle' = c.lean_angle
            /\ angle_diff' = c.angle_diff
            /\ yaw_rate' = c.yaw_rate
            /\ target_lean' = c.target_lean
            /\ skeleton' = {PoseOf(c)}
    IN /\ fig_open
       /\ Frame(Update(dt))
       /\ frame_count' = frame_count + 1
       /\ last_call' = "update_frame"
       /\ UNCHANGED <<variant, dt, fig_open, input_forward, input_turn>>

-----------------------------------------------------------------------------
(* Specifications *)

\* The frames a run of the interactive program is followed for, with any keys.
MaxFrames == 2

\* The frames a run of the standalone program is followed for.
PathFrames == 700

\* The frames a run is followed for when keys are only held and released.
HoldFrames == 32

\* The fields of a new character other than position and rotation.
Fresh ==
    /\ velocity = <<0, 0>>
    /\ lean_angle = 0
    /\ ground_speed = 0
    /\ time = 0
    /\ last_rotation = 0
    /\ input_forward = 0
    /\ input_turn = 0
    /\ frame_count = 0
    /\ fig_open = TRUE
    /\ angle_diff = 0
    /\ yaw_rate = 0
    /\ target_lean = 0
    /\ skeleton = {}
    /\ last_call = "__init__"

\* The state after InteractiveCharacter() / ProceduralCharacter().
Constructed ==
    /\ position = <<0, 0>>
    /\ rotation = 0
    /\ Fresh

Init ==
    /\ variant \in {"interactive", "standalone"}
    /\ dt = DT
    /\ Constructed

\* The frames left to the running variant.
FrameLimit(interactive_frames) ==
    IF variant = "interactive" THEN interactive_frames ELSE PathFrames

Next ==
    \/ \E key \in Keys : OnKeyPress(key)
    \/ \E key \in Keys : OnKeyRelease(key)
    \/ frame_count < FrameLimit(MaxFrames) /\ UpdateFrame
    \/ GetSkeletonPoints

\* Either program as shipped: any key events, a frame every 1/30 s.
Spec == Init /\ [][Next]_vars

\* The steps a driver may use: 60, 30 and 15 frames per second.
DtSet == {DT \div 2, DT, 2 * DT}

InitHold ==
    /\ variant \in {"interactive", "standalone"}
    /\ dt \in DtSet
    /\ Constructed

\* The keys held in the long runs: forward and turn left.
HoldKeys == {"w", "a"}

NextHold ==
    \/ frame_count = 0 /\ \E key \in HoldKeys : OnKeyPress(key)
    \/ \E key \in HoldKeys : OnKeyRelease(key)
    \/ frame_count < FrameLimit(HoldFrames) /\ UpdateFrame

\* Long runs: keys are pressed before the first frame, held, and released.
SpecHold == InitHold /\ [][NextHold]_vars

\* The frames a run is followed for when the step changes between frames.
TotalFrames == 6

\* The steps of the runs with a changing step: none at all, and 1/30 s.
TotalDtSet == {0, DT}

InitTotal ==
    /\ variant \in {"interactive", "standalone"}
    /\ dt \in TotalDtSet
    /\ Constructed

\* The driver chooses another step for the frames that follow.
SetDt(d) ==
    /\ d # dt
    /\ dt' = d
    /\ UNCHANGED <<variant, charstate, frame_count, fig_open, angle_diff,
                   yaw_rate, target_lean, skeleton, last_call>>

NextTotal ==
    \/ frame_count = 0 /\ \E key \in HoldKeys : OnKeyPress(key)
    \/ \E key \in HoldKeys : OnKeyRelease(key)
    \/ \E d \in TotalDtSet : SetDt(d)
    \/ frame_count < TotalFrames /\ UpdateFrame

\* update(dt) called with dt = 0 and dt = 1/30 in any order.
SpecTotal == InitTotal /\ [][NextTotal]_vars

\* The frames a run from an arbitrary rotation is followed for.
AngleFrames == 3

\* The half turns the starting rotation is away from the first heading.
MaxHalfTurns == 4

\* Where the standalone character starts in the runs from arbitrary rotations.
AngleStarts == {<<-One, 0>>, <<0, -One>>, <<One, One>>, <<2 * One, -One>>}

\* The heading atan2(vy, vx) of the first tick of a character placed at pos.
FirstHeading(pos) ==
    LET Heading(vel) == Atan2(vel[2], vel[1])
    IN Heading(PVelocity(<<0, 0>>, pos, DT))

\* Rotations at, just below and just above every half turn from heading.
RotationsAround(heading) ==
    {heading + k * PI + j : k \in -MaxHalfTurns..MaxHalfTurns, j \in -1..1}

InitAngle ==
    /\ variant = "standalone"
    /\ dt = DT
    /\ position \in AngleStarts
    /\ rotation \in RotationsAround(FirstHeading(position))
    /\ Fresh

NextAngle ==
    \/ frame_count < AngleFrames /\ UpdateFrame
    \/ GetSkeletonPoints

\* The standalone update applied to a character whose rotation is anything.
SpecAngle == InitAngle /\ [][NextAngle]_vars
-----------------------------------------------------------------------------
(* Claims *)

\* An update_frame step of the interactive program.
IFrameStep == variant = "interactive" /\ frame_count' = frame_count + 1

\* No input: input_forward = 0 and input_turn = 0.
NoInput == input_forward = 0 /\ input_turn = 0

\* C1: in every reachable state ground_speed equals the magnitude of
\* velocity.  The SPACE handler zeroes velocity and leaves ground_speed as
\* it was, so the equality fails until the next update.
C1_GroundSpeedIsNorm == ground_speed = Norm(velocity)

\* C2 as stated: with no input, every update makes the velocity magnitude
\* strictly smaller than it was.  It fails at rest, where 0 stays 0.
C2_StrictlySmaller ==
    [][(IFrameStep /\ NoInput) => ground_speed' < Norm(velocity)]_vars

\* C2 amended: with no input, for each step dt of DtSet, every update leaves
\* the velocity magnitude at most friction times what it was (to the last
\* unit), so it never grows and tends to zero geometrically; it is strictly
\* smaller whenever it was above the 0.001 threshold of the acceleration
\* step; at rest velocity stays (0,0) and position stays where it is.
C2_Decay ==
    [][(IFrameStep /\ NoInput) =>
          /\ ground_speed' <= Mul(Norm(velocity), friction) + 1
          /\ ground_speed' <= Norm(velocity)
          /\ Norm(velocity) > DiffThreshold => ground_speed' < Norm(velocity)
          /\ velocity = <<0, 0>> =>
                 velocity' = <<0, 0>> /\ position' = position]_vars

\* C2's case: a frame ran with no input, at a step other than 1/30, and the
\* character still moves.
C2_Witness ==
    /\ variant = "interactive"
    /\ NoInput
    /\ last_call = "update_frame"
    /\ dt # DT
    /\ frame_count > 2
    /\ ground_speed > DiffThreshold

\* The speed at which the acceleration of one frame and the friction balance:
\* v = (v + acceleration * dt) * friction.
SteadySpeed == MulDiv(Mul(acceleration, DT), friction, One - friction)

\* The scenario of C3: from rest with rotation 0, forward held, no turn.
ForwardOnly ==
    /\ variant = "interactive"
    /\ dt = DT
    /\ input_forward = One
    /\ input_turn = 0
    /\ rotation = 0

\* C3: in the forward-only scenario the velocity magnitude is below max_speed
\* after every tick and never above the steady-state speed.
C3_BelowSteadySpeed ==
    ForwardOnly =>
        /\ Norm(velocity) < max_speed
        /\ Norm(velocity) <= SteadySpeed
        /\ ground_speed = Norm(velocity)

\* C3's case: one second (30 frames) of the scenario, the character moving.
C3_Witness == ForwardOnly /\ frame_count = FPS /\ velocity[1] > One

\* C4: at dt = 1/30, lean_angle and the target lean of every tick are within
\* [-max_lean_angle, max_lean_angle], in both variants.
C4_LeanBounded ==
    dt = DT =>
        /\ Abs(lean_angle) <= max_lean_angle
        /\ Abs(target_lean) <= max_lean_angle

\* C4's case: the lean has come within a tenth of a degree of the bound.
C4_Witness ==
    /\ dt = DT
    /\ frame_count > 0
    /\ lean_angle > max_lean_angle - Lit(1, 10)
    /\ target_lean = max_lean_angle

\* The scenario of C5: the character never moved forward and dt = 1/30.
TurnOnly ==
    /\ variant = "interactive"
    /\ dt = DT
    /\ input_forward = 0
    /\ position = <<0, 0>>

\* The change of lean a tick toward target 0 makes is at least one unit.
LeanStepVisible ==
    Mul(Mul(lean_angle, lean_interp_speed), dt) # 0

\* C5: while turn = 1 is held from rest, lean_angle is positive after every
\* tick; once turn is back to 0, every tick keeps lean_angle positive, never
\* raises it, lowers it strictly (whenever the step toward 0, lean *
\* lean_interp_speed * dt, is at least a unit of the arithmetic) and leaves
\* at most 1 - lean_interp_speed * dt of it, so it tends to zero.
C5_LeanFollowsTurn ==
    [][(IFrameStep /\ TurnOnly) =>
          /\ input_turn = One => lean_angle' > 0
          /\ (input_turn = 0 /\ lean_angle > 0) =>
                 /\ lean_angle' > 0
                 /\ lean_angle' <= lean_angle
                 /\ LeanStepVisible => lean_angle' < lean_angle
                 /\ lean_angle' <=
                        Mul(lean_angle, One - Mul(lean_interp_speed, dt)) + 1
                 /\ target_lean' = 0]_vars

\* C5's case: turn was held, released, and the lean has decayed below a
\* degree without reaching zero.
C5_Witness ==
    /\ TurnOnly
    /\ input_turn = 0
    /\ rotation > 0
    /\ last_call = "update_frame"
    /\ lean_angle > 0
    /\ lean_angle < One

\* The character is stopped: no input and no velocity.
Stopped == NoInput /\ velocity = <<0, 0>>

\* C6: SPACE sets both inputs to 0 and velocity to (0,0); from then on
\* every tick, until a movement key is pressed, leaves velocity (0,0) and
\* position and rotation unchanged (key releases keep the character stopped).
C6_SpaceStops ==
    [][/\ OnKeyPress(" ") => Stopped'
       /\ (Stopped /\ IFrameStep) =>
              Stopped' /\ position' = position /\ rotation' = rotation
       /\ (Stopped /\ last_call' = "on_key_release") => Stopped']_vars

\* C6's case: the character moved and turned, and a tick ran while stopped.
C6_Witness ==
    /\ Stopped
    /\ variant = "interactive"
    /\ last_call = "update_frame"
    /\ frame_count = 2
    /\ position # <<0, 0>>
    /\ rotation # 0

\* A tick of the standalone program in which the rotation is updated.
PTurnStep ==
    /\ variant = "standalone"
    /\ frame_count' = frame_count + 1
    /\ ground_speed' > SpeedThreshold

C8_SameLeanDerivation ==
    \A gain \in {LeanGainInteractive, LeanGainStandalone} :
        TargetLeanInteractive(yaw_rate, gain)
            = TargetLeanStandalone(yaw_rate, gain)

InitialState ==
    /\ position = <<0, 0>>
    /\ velocity = <<0, 0>>
    /\ rotation = 0
    /\ lean_angle = 0
    /\ ground_speed = 0
    /\ time = 0

\* C10: for the initial state get_skeleton_points() returns hip (0,0),
\* spine_top (0, body_height * 0.6) and the feet at (-0.2, -leg_length) and
\* (0.2, -leg_length), in both variants.
C10_InitialPose ==
    (InitialState /\ last_call = "get_skeleton_points") =>
        \A pose \in skeleton :
            /\ pose.hip = <<0, 0>>
            /\ pose.spine_top = <<0, Mul(body_height, Lit(6, 10))>>
            /\ pose.left_foot = <<-Lit(2, 10), -leg_length>>
            /\ pose.right_foot = <<Lit(2, 10), -leg_length>>

\* C10's case: get_skeleton_points() was called in the initial state.
C10_Witness ==
    InitialState /\ last_call = "get_skeleton_points" /\ skeleton # {}


\* The body-local vertical offsets <<left, right>> get_skeleton_points()
\* passes to rotate_point for the feet, at the current time and ground speed.
FootOffsets ==
    LET Of(stride_time) ==
            <<FootY(Sin(stride_time)), FootY(Sin(stride_time + PI))>>
    IN Of(StrideTime(time, StrideSpeed(variant, ground_speed)))

\* C11: at every time and ground speed, in both variants, the body-local
\* vertical offset of each foot is at least -leg_length and at most
\* -leg_length + 0.2.
C11_FootOffsetBounded ==
    LET InRange(off) ==
            \A i \in 1..2 :
                -leg_length <= off[i] /\ off[i] <= -leg_length + Lit(2, 10)
    IN InRange(FootOffsets)

\* C11's case: a frame was drawn of a walking character with both feet
\* within a hundredth of the top of the lift (the phases are near +1 and -1).
C11_Witness ==
    LET Lifted(off) ==
            /\ off[1] >= -leg_length + Lit(19, 100)
            /\ off[2] >= -leg_length + Lit(19, 100)
    IN /\ last_call = "update_frame"
       /\ ground_speed > One
       /\ Lifted(FootOffsets)

NormSlack == Lit(1, Scale)

\* C13: in every update(dt) of the interactive variant the change applied to
\* velocity before friction is no longer than acceleration * dt and no
\* longer than the distance to the target velocity, it lies on the straight
\* line toward the target (the distance to the target shrinks by the length
\* of the change), and the result is multiplied by friction exactly once,
\* whatever the input is.  Lengths are compared to within NormSlack.
C13_BoundedAcceleration ==
    [][IFrameStep =>
          LET Stepped(target, before, after) ==
                  /\ Norm(VSub(after, velocity))
                         <= Mul(acceleration, dt) + NormSlack
                  /\ Norm(VSub(after, velocity)) <= before + NormSlack
                  /\ Norm(VSub(target, after)) <= before
                  /\ Norm(VSub(target, after)) + Norm(VSub(after, velocity))
                         <= before + NormSlack
                  /\ velocity' = VScale(after, friction)
              Toward(target) ==
                  Stepped(target, Norm(VSub(target, velocity)),
                          IAccelerate(velocity, target, dt))
          IN Toward(ITargetVelocity(IRotation(dt)))]_vars

\* C13's case: forward for a frame, then backward for a frame: the step of
\* the second frame was cut to acceleration * dt and friction applied to it.
C13_Witness ==
    /\ variant = "interactive"
    /\ last_call = "update_frame"
    /\ frame_count = 2
    /\ input_forward = -One
    /\ velocity[1] < 0
    /\ velocity[1] > -Lit(1, 10)

\* Each input is one of -1, 0, +1.
InputsDiscrete ==
    /\ input_forward \in {-One, 0, One}
    /\ input_turn \in {-One, 0, One}

\* C14: whatever keys are pressed and released, in whatever order and with
\* ticks in between, input_forward and input_turn are each one of -1, 0, +1,
\* and a tick changes neither of them.
C14_InputsDiscrete ==
    /\ InputsDiscrete
    /\ [][/\ InputsDiscrete'
          /\ frame_count' # frame_count =>
                 UNCHANGED <<input_forward, input_turn>>]_vars

\* C14's case: forward for a frame, then backward and a right turn for a
\* frame; the inputs are still -1 and -1 after the tick.
C14_Witness ==
    /\ variant = "interactive"
    /\ last_call = "update_frame"
    /\ frame_count = 2
    /\ input_forward = -One
    /\ input_turn = -One
    /\ position[1] > 0

\* The character fields in record c, with lean_angle replaced by lean.
Leaning(c, lean) == [c EXCEPT !.lean_angle = lean]

\* Lean angles to compare against: upright, and 10 degrees to either side.
LeanSamples == {0, 10 * One, -10 * One}

====
